---- MODULE Spec2Model ----
(***************************************************************************)
(* The dummy training entry point train.py as a state machine.             *)
(*                                                                         *)
(* The state is the process environment and command line, the part of the *)
(* filesystem the job touches (the training directories it may list, the  *)
(* chain of directories leading to the model directories and the          *)
(* model.dummy file in each), and the position of the single thread of    *)
(* control in __main__ and train().                                        *)
(***************************************************************************)
EXTENDS Integers, Sequences, FiniteSets, TLC

VARIABLES
    environ,    \* names of the environment variables that are set
    argv,       \* flags given on the command line
    trainfs,    \* training path -> [kind, entries]
    fs,         \* [dirs: depth -> kind, art: depth -> [kind, data]]
    pc,         \* position in the script
    defaults,   \* argparse defaults registered so far: flag -> value
    args,       \* parsed namespace [model_dir, training_dir], None before line 38
    tmp,        \* result of os.listdir (line 14)
    x,          \* loop variable of the epoch loop (line 19)
    f,          \* the file object of the with statement: "none", "open", "closed"
    exc,        \* exception in flight or that ended the process, "none" if none
    failedAt,   \* the step that raised exc
    exitCode,   \* process exit status, -1 while running
    trace,      \* steps performed by this run, in order
    run,        \* number of the current run of the job
    pre,        \* fs at the start of the current run
    prevExc     \* exc of the previous run, "n/a" in the first run

vars == <<environ, argv, trainfs, fs, pc, defaults, args, tmp, x, f, exc,
          failedAt, exitCode, trace, run, pre, prevExc>>

----------------------------------------------------------------------------
(* Bounds of the model *)

MaxDepth == 2       \* depth of the deepest model directory below the root
MaxRuns == 2        \* runs of the job in sequence on the same filesystem

(* Program constants *)

epochs == 5         \* train.py line 18

None == "None"

----------------------------------------------------------------------------
(* Text and bytes.  open(.., "w") is a text-mode file: str is encoded on   *)
(* write.  The characters used are ASCII, one byte each.                   *)

Chars == {"D", "u", "m", "y", " ", "o", "d", "e", "l", ".", "!"}

Ord(c) ==
    CASE c = "D" -> 68  [] c = "u" -> 117 [] c = "m" -> 109 [] c = "y" -> 121
      [] c = " " -> 32  [] c = "o" -> 111 [] c = "d" -> 100 [] c = "e" -> 101
      [] c = "l" -> 108 [] c = "." -> 46  [] c = "!" -> 33

Chr(b) == CHOOSE c \in Chars : Ord(c) = b

Encode(s) == [i \in 1..Len(s) |-> Ord(s[i])]

Decode(bs) == [i \in 1..Len(bs) |-> Chr(bs[i])]

\* the literal of line 28
DummyModel == <<"D", "u", "m", "m", "y", " ", "m", "o", "d", "e", "l", ".">>

\* content a model.dummy file may hold before the job runs; longer than the literal
OldModel == <<"o", "l", "d", " ", "d", "u", "m", "m", "y", " ", "m", "o", "d", "e", "l", "!">>

----------------------------------------------------------------------------
(* The filesystem *)

Depths == 1..MaxDepth

Absent == [kind |-> "absent", data |-> <<>>]
Dir == [kind |-> "dir", data |-> <<>>]
File(bs) == [kind |-> "file", data |-> bs]

NoDir == [kind |-> "absent", entries |-> <<>>]
NotDir == [kind |-> "file", entries |-> <<>>]
Listing(es) == [kind |-> "dir", entries |-> es]

Listings == {<<>>, <<"a.csv", "b.csv">>}

\* A directory exists only inside a directory, a file only inside a directory.
WellFormed(t) ==
    /\ \A d \in Depths : d > 1 /\ t.dirs[d] # "absent" => t.dirs[d - 1] = "dir"
    /\ \A d \in Depths : t.art[d] # Absent => t.dirs[d] = "dir"

InitialFS ==
    {t \in [dirs : [Depths -> {"absent", "file", "dir"}],
            art : [Depths -> {Absent, Dir, File(Encode(OldModel))}]] : WellFormed(t)}

----------------------------------------------------------------------------
(* Configuration: __main__, lines 33-38 *)

EnvVars == {"SM_MODEL_DIR", "SM_CHANNEL_TRAIN"}
Flags == {"--model-dir", "--training-dir"}

\* The value a set environment variable holds.
EnvValue(v) == IF v = "SM_MODEL_DIR" THEN "env_model" ELSE "env_train"

\* The value a flag given on the command line holds.
FlagValue(a) == IF a = "--model-dir" THEN "flag_model" ELSE "flag_train"

TrainPaths == {"env_train", "flag_train"}

\* Where a model directory lies in the chain of directories below the root:
\* the one the flag names directly below the root, the one the environment
\* names at the bottom of the chain.
DepthOf(p) == IF p = "flag_model" THEN 1 ELSE MaxDepth

NoArgs == [model_dir |-> None, training_dir |-> None]

\* argparse: the flag's value if the flag is given, else its registered default
Resolve(a) == IF a \in argv THEN FlagValue(a) ELSE defaults[a]

----------------------------------------------------------------------------
(* Exceptions.  Nothing in train.py catches an exception: it unwinds to    *)
(* the top of the script and the interpreter exits with a nonzero status.  *)

\* an exception swallowed at the top of the script
ExitStatusZero(e) == 0

ExitStatus(e) == IF e = "none" THEN 0 ELSE IF e = "KeyboardInterrupt" THEN 130 ELSE 1

\* An exception raised at `step` that leaves the script: the process ends.
Raise(e, step) ==
    /\ exc' = e
    /\ failedAt' = step
    /\ exitCode' = ExitStatus(e)
    /\ pc' = "done"

Did(step, n) == trace' = Append(trace, <<step, n>>)

----------------------------------------------------------------------------
Init ==
    /\ environ \in SUBSET EnvVars
    /\ argv \in SUBSET Flags
    /\ trainfs \in [TrainPaths -> {NoDir, NotDir} \cup {Listing(es) : es \in Listings}]
    /\ fs \in InitialFS
    /\ pc = "add_model_dir"
    /\ defaults = [a \in Flags |-> None]
    /\ args = NoArgs
    /\ tmp = <<>>
    /\ x = -1
    /\ f = "none"
    /\ exc = "none"
    /\ failedAt = "none"
    /\ exitCode = -1
    /\ trace = <<>>
    /\ run = 1
    /\ pre = fs
    /\ prevExc = "n/a"

----------------------------------------------------------------------------
(* __main__ *)

\* os.environ.get(v): no exception, None for a variable that is not set
NeverRaises(v) == FALSE

\* os.environ[v] raises KeyError for a variable that is not set
EnvironRaises(v) == v \notin environ

\* the value looked up in os.environ
EnvironItem(v) == IF v \in environ THEN EnvValue(v) ELSE None

\* line 34: default=os.environ["SM_MODEL_DIR"] is evaluated when the
\* argument is registered, whatever the command line holds.
AddModelDirArg ==
    /\ pc = "add_model_dir"
    /\ IF ~EnvironRaises("SM_MODEL_DIR")
         THEN /\ defaults' = [defaults EXCEPT !["--model-dir"] = EnvironItem("SM_MODEL_DIR")]
              /\ pc' = "add_training_dir"
              /\ UNCHANGED <<exc, failedAt, exitCode>>
         ELSE /\ Raise("KeyError", "config")
              /\ UNCHANGED defaults
    /\ UNCHANGED <<environ, argv, trainfs, fs, args, tmp, x, f, trace, run, pre, prevExc>>

\* line 36
AddTrainingDirArg ==
    /\ pc = "add_training_dir"
    /\ IF ~EnvironRaises("SM_CHANNEL_TRAIN")
         THEN /\ defaults' = [defaults EXCEPT !["--training-dir"] = EnvironItem("SM_CHANNEL_TRAIN")]
              /\ pc' = "parse_args"
              /\ UNCHANGED <<exc, failedAt, exitCode>>
         ELSE /\ Raise("KeyError", "config")
              /\ UNCHANGED defaults
    /\ UNCHANGED <<environ, argv, trainfs, fs, args, tmp, x, f, trace, run, pre, prevExc>>

\* lines 38-39: parse_args, then the call of train(args)
ParseArgs ==
    /\ pc = "parse_args"
    /\ args' = [model_dir |-> Resolve("--model-dir"),
                training_dir |-> Resolve("--training-dir")]
    /\ pc' = "listdir"
    /\ UNCHANGED <<environ, argv, trainfs, fs, defaults, tmp, x, f, exc, failedAt,
                   exitCode, trace, run, pre, prevExc>>

----------------------------------------------------------------------------
(* train(args) *)

\* What the training path names; a path outside the modelled ones names nothing.
TrainingDir(p) == IF p \in DOMAIN trainfs THEN trainfs[p] ELSE NoDir

\* a listing guarded by os.path.exists: only a file in place of the directory raises
ListdirRaisesIfFile(d) == IF d.kind = "file" THEN "NotADirectoryError" ELSE "none"

\* os.listdir raises FileNotFoundError for a missing path and
\* NotADirectoryError for a file.
ListdirRaises(d) ==
    CASE d.kind = "dir" -> "none"
      [] d.kind = "absent" -> "FileNotFoundError"
      [] d.kind = "file" -> "NotADirectoryError"

\* lines 14-15
ListDir ==
    /\ pc = "listdir"
    /\ LET d == TrainingDir(args.training_dir)
           e == ListdirRaises(d)
       IN  IF e = "none"
             THEN /\ tmp' = d.entries
                  /\ Did("listdir", 0)
                  /\ pc' = "for"
                  /\ UNCHANGED <<exc, failedAt, exitCode>>
             ELSE /\ Raise(e, "listdir")
                  /\ UNCHANGED <<tmp, trace>>
    /\ UNCHANGED <<environ, argv, trainfs, fs, defaults, args, x, f, run, pre, prevExc>>

\* a loop that runs once more than range(epochs)
HasNextInclusive(i) == i + 1 <= epochs

\* line 19: range(epochs) has a value after i
HasNext(i) == i + 1 < epochs

\* lines 19-20: the next value of range(epochs), and "Running epoch x..."
EpochStart ==
    /\ pc = "for"
    /\ HasNext(x)
    /\ x' = x + 1
    /\ Did("running", x')
    /\ pc' = "sleep"
    /\ UNCHANGED <<environ, argv, trainfs, fs, defaults, args, tmp, f, exc, failedAt,
                   exitCode, run, pre, prevExc>>

\* lines 21-22: time.sleep(2) returns, and "Completed epoch x."
EpochComplete ==
    /\ pc = "sleep"
    /\ Did("completed", x)
    /\ pc' = "for"
    /\ UNCHANGED <<environ, argv, trainfs, fs, defaults, args, tmp, x, f, exc, failedAt,
                   exitCode, run, pre, prevExc>>

\* line 21: the process is interrupted while it sleeps
Cancel ==
    /\ pc = "sleep"
    /\ Raise("KeyboardInterrupt", "sleep")
    /\ UNCHANGED <<environ, argv, trainfs, fs, defaults, args, tmp, x, f, trace, run,
                   pre, prevExc>>

\* line 19: range(epochs) is exhausted
LoopExit ==
    /\ pc = "for"
    /\ ~HasNext(x)
    /\ pc' = "makedirs"
    /\ UNCHANGED <<environ, argv, trainfs, fs, defaults, args, tmp, x, f, exc, failedAt,
                   exitCode, trace, run, pre, prevExc>>

\* line 25: model_filename = args.model_dir + "/model.dummy";
\* os.path.dirname(model_filename) is args.model_dir again
ModelDirDepth == DepthOf(args.model_dir)

\* The shallowest directory of the chain down to depth d that is not a
\* directory, d + 1 if all of them are.
FirstMissing(t, d) ==
    IF \A i \in 1..d : t.dirs[i] = "dir" THEN d + 1
    ELSE CHOOSE k \in 1..d : t.dirs[k] # "dir" /\ \A i \in 1..(k - 1) : t.dirs[i] = "dir"

\* os.mkdir in place of os.makedirs: only the last directory is created
MkDirLeaf(t, from, to) ==
    [t EXCEPT !.dirs = [i \in Depths |-> IF i = to /\ from <= to THEN "dir" ELSE t.dirs[i]]]

\* The chain with the directories at depths from..to created.
MkDirs(t, from, to) ==
    [t EXCEPT !.dirs = [i \in Depths |-> IF from <= i /\ i <= to THEN "dir" ELSE t.dirs[i]]]

\* os.makedirs without exist_ok: an existing directory is an error
ExistsErrorAlways(exist_ok) == TRUE

\* os.makedirs(name, exist_ok): an existing directory is an error only
\* without exist_ok.
ExistsError(exist_ok) == ~exist_ok

\* line 26: os.makedirs(.., exist_ok=True).  Existing directories are left
\* alone; a file in the way raises; the missing directories are created from
\* the top down, and a mkdir the system refuses raises with the directories
\* above it already created.
MakeDirs ==
    /\ pc = "makedirs"
    /\ LET d == ModelDirDepth
           k == FirstMissing(fs, d)
       IN  IF k > d
             THEN IF ExistsError(TRUE)
                    THEN Raise("FileExistsError", "makedirs") /\ UNCHANGED <<fs, trace>>
                    ELSE /\ Did("makedirs", 0)
                         /\ pc' = "open"
                         /\ UNCHANGED <<fs, exc, failedAt, exitCode>>
             ELSE IF fs.dirs[k] = "file"
                    THEN /\ Raise(IF k < d THEN "NotADirectoryError" ELSE "FileExistsError",
                                  "makedirs")
                         /\ UNCHANGED <<fs, trace>>
                    ELSE \E j \in k..(d + 1) :
                           /\ fs' = MkDirs(fs, k, j - 1)
                           /\ IF j <= d
                                THEN Raise("PermissionError", "makedirs") /\ UNCHANGED trace
                                ELSE /\ Did("makedirs", 0)
                                     /\ pc' = "open"
                                     /\ UNCHANGED <<exc, failedAt, exitCode>>
    /\ UNCHANGED <<environ, argv, trainfs, defaults, args, tmp, x, f, run, pre, prevExc>>

\* mode "a": the content stays and writes go after it
OpenedDataAppend(old) == old

\* What opening a file in the given mode leaves of its content.
\* "w" truncates.
OpenedData(old) == <<>>

\* line 27: open(model_filename, "w") creates the file or truncates it.
\* A directory of that name, or a refusal of the system, raises and leaves
\* the filesystem alone.
OpenArtifact ==
    /\ pc = "open"
    /\ LET d == ModelDirDepth
           a == fs.art[d]
       IN  \/ /\ a.kind = "dir"
              /\ Raise("IsADirectoryError", "open")
              /\ UNCHANGED <<fs, f, trace>>
           \/ /\ a.kind # "dir"
              /\ Raise("PermissionError", "open")
              /\ UNCHANGED <<fs, f, trace>>
           \/ /\ a.kind # "dir"
              /\ fs' = [fs EXCEPT !.art[d] = File(OpenedData(a.data))]
              /\ f' = "open"
              /\ Did("open", 0)
              /\ pc' = "write"
              /\ UNCHANGED <<exc, failedAt, exitCode>>
    /\ UNCHANGED <<environ, argv, trainfs, defaults, args, tmp, x, run, pre, prevExc>>

\* the literal with its last character lost
PayloadShort == Encode(SubSeq(DummyModel, 1, Len(DummyModel) - 1))

\* The bytes f.write is given.
Payload == Encode(DummyModel)

\* line 28: f.write("Dummy model.").  The n bytes that reach the file are
\* all of them, or fewer when the system fails the write (disk full, I/O
\* error); the exception is then in flight inside the with block.
WriteArtifact ==
    /\ pc = "write"
    /\ LET d == ModelDirDepth IN
         \E n \in 0..Len(Payload) :
           /\ fs' = [fs EXCEPT !.art[d] = File(fs.art[d].data \o SubSeq(Payload, 1, n))]
           /\ IF n = Len(Payload)
                THEN Did("write", 0) /\ UNCHANGED <<exc, failedAt>>
                ELSE exc' = "OSError" /\ failedAt' = "write" /\ UNCHANGED trace
    /\ pc' = "exit_with"
    /\ UNCHANGED <<environ, argv, trainfs, defaults, args, tmp, x, f, exitCode, run,
                   pre, prevExc>>

\* open() and f.close() around the write, without with: a raise skips the close
ClosesOnErrorNever == FALSE

\* Whether the with statement closes the file when its block raised.
ClosesOnError == TRUE

\* lines 27-28: the with statement's exit closes the file, whether or not the
\* block raised; train returns and the script ends, or the exception goes on.
ExitWith ==
    /\ pc = "exit_with"
    /\ f' = IF exc = "none" \/ ClosesOnError THEN "closed" ELSE f
    /\ IF exc = "none" THEN Did("close", 0) ELSE UNCHANGED trace
    /\ exitCode' = ExitStatus(exc)
    /\ pc' = "done"
    /\ UNCHANGED <<environ, argv, trainfs, fs, defaults, args, tmp, x, exc, failedAt,
                   run, pre, prevExc>>

----------------------------------------------------------------------------
\* The job is started again with the same environment and command line on
\* the filesystem the previous run left.
Rerun ==
    /\ pc = "done"
    /\ run < MaxRuns
    /\ run' = run + 1
    /\ pre' = fs
    /\ prevExc' = exc
    /\ pc' = "add_model_dir"
    /\ defaults' = [a \in Flags |-> None]
    /\ args' = NoArgs
    /\ tmp' = <<>>
    /\ x' = -1
    /\ f' = "none"
    /\ exc' = "none"
    /\ failedAt' = "none"
    /\ exitCode' = -1
    /\ trace' = <<>>
    /\ UNCHANGED <<environ, argv, trainfs, fs>>

Step ==
    \/ AddModelDirArg
    \/ AddTrainingDirArg
    \/ ParseArgs
    \/ ListDir
    \/ EpochStart
    \/ EpochComplete
    \/ LoopExit
    \/ MakeDirs
    \/ OpenArtifact
    \/ WriteArtifact
    \/ ExitWith

Next == Step \/ Cancel \/ Rerun

Spec == Init /\ [][Next]_vars

\* The interpreter runs the script's next statement as long as there is one;
\* an interrupt and a second run are up to the environment.
FairSpec == Spec /\ WF_vars(Step)

----------------------------------------------------------------------------
(* Properties *)

Done == pc = "done"

Succeeded == Done /\ exc = "none"

\* The model.dummy entry of the resolved model directory.
Artifact == fs.art[ModelDirDepth]

\* The model directory and all its ancestors are directories in t.
ChainExists(t) == \A i \in 1..ModelDirDepth : t.dirs[i] = "dir"

IsPrefix(p, q) == Len(p) <= Len(q) /\ p = SubSeq(q, 1, Len(p))

\* C1: a run that ends successfully leaves <model_dir>/model.dummy a file
\* whose content reads back as exactly "Dummy model.", whatever the file held
\* before and whatever the training directory lists.
C1_ArtifactIsLiteral ==
    Succeeded => /\ Artifact.kind = "file"
                 /\ Decode(Artifact.data) = DummyModel

\* a first run that succeeded over an older, longer model.dummy with an empty
\* training directory
C1_Witness ==
    /\ Succeeded
    /\ run = 1
    /\ tmp = <<>>
    /\ pre.art[ModelDirDepth] = File(Encode(OldModel))

\* C2: when the resolved training path is not a directory the run gets no
\* further than the listing: it ends there with FileNotFoundError or
\* NotADirectoryError and a nonzero status, no step has been performed, no
\* file is open and the filesystem is as the run found it.
C2_MissingTrainingDir ==
    (args # NoArgs /\ TrainingDir(args.training_dir).kind # "dir") =>
        /\ pc \in {"listdir", "done"}
        /\ Done => /\ exc \in {"FileNotFoundError", "NotADirectoryError"}
                   /\ failedAt = "listdir"
                   /\ exitCode > 0
        /\ trace = <<>>
        /\ f = "none"
        /\ fs = pre

\* the listing failed and an existing model.dummy is still in place
C2_Witness ==
    /\ Done
    /\ failedAt = "listdir"
    /\ exc = "FileNotFoundError"
    /\ Artifact = File(Encode(OldModel))

\* A variable is set neither in the environment nor by its flag.
Unconfigured(v, a) == v \notin environ /\ a \notin argv

\* C3: the run ends with KeyError (ConfigurationMissing) only when some
\* variable is absent from the environment and its flag is not given.
C3_MissingOnlyWithoutOverride ==
    (Done /\ exc = "KeyError") =>
        \/ Unconfigured("SM_MODEL_DIR", "--model-dir")
        \/ Unconfigured("SM_CHANNEL_TRAIN", "--training-dir")

\* C4: with the model directory, or the training directory, given neither by
\* flag nor by environment, the run never leaves the registration of the
\* arguments: it ends there with KeyError and a nonzero status, with nothing
\* listed, no step performed and the filesystem as the run found it.
C4_MissingBeforeAnyWork ==
    (\/ Unconfigured("SM_MODEL_DIR", "--model-dir")
     \/ Unconfigured("SM_CHANNEL_TRAIN", "--training-dir")) =>
        /\ pc \in {"add_model_dir", "add_training_dir", "done"}
        /\ Done => /\ exc = "KeyError"
                   /\ failedAt = "config"
                   /\ exitCode > 0
        /\ args = NoArgs
        /\ trace = <<>>
        /\ f = "none"
        /\ fs = pre

\* the model directory is configured, the training directory is not, and the
\* run has ended
C4_Witness ==
    /\ Done
    /\ exc = "KeyError"
    /\ "SM_MODEL_DIR" \in environ
    /\ Unconfigured("SM_CHANNEL_TRAIN", "--training-dir")

\* C5 as stated: in every terminated state each model.dummy is either fully
\* written or as the run found it.
C5_NoPartialArtifact ==
    Done => \A d \in Depths : \/ fs.art[d] = File(Encode(DummyModel))
                              \/ fs.art[d] = pre.art[d]

\* C5 amended: in every terminated state model.dummy of the model directory
\* is fully written when the run succeeded, and holds a proper prefix of the
\* literal (possibly none of it) when the write itself failed after the open
\* truncated the file; every other model.dummy, and this one after any other
\* failure, is as the run found it.
C5_PartialOnlyAfterFailedWrite ==
    Done => \A d \in Depths :
        IF args # NoArgs /\ d = ModelDirDepth /\ exc = "none"
          THEN fs.art[d] = File(Encode(DummyModel))
        ELSE IF args # NoArgs /\ d = ModelDirDepth /\ failedAt = "write"
          THEN /\ fs.art[d].kind = "file"
               /\ Len(fs.art[d].data) < Len(DummyModel)
               /\ IsPrefix(fs.art[d].data, Encode(DummyModel))
        ELSE fs.art[d] = pre.art[d]

\* the write failed after five bytes over an older model.dummy
C5_Witness ==
    /\ Done
    /\ failedAt = "write"
    /\ Len(Artifact.data) = 5
    /\ pre.art[ModelDirDepth] = File(Encode(OldModel))

\* C6: a run that succeeds after a run that succeeded leaves the filesystem
\* exactly as it found it (same content in model.dummy, nothing added), and
\* after a successful run the directory creation of the next run does not fail.
C6_Idempotent ==
    (run > 1 /\ prevExc = "none") =>
        /\ Succeeded => fs = pre
        /\ failedAt # "makedirs"

\* two successful runs in a row into the deep model directory
C6_Witness ==
    /\ run = 2
    /\ prevExc = "none"
    /\ Succeeded
    /\ args.model_dir = "env_model"

\* C7: whenever the artifact is about to be opened or is open, the model
\* directory and all its ancestors exist as directories; if they all existed
\* when the run started, the creation step changed nothing and did not fail.
C7_ModelDirExistsAtOpen ==
    /\ pc \in {"open", "write", "exit_with"} => ChainExists(fs)
    /\ (args # NoArgs /\ ChainExists(pre)) =>
          /\ failedAt # "makedirs"
          /\ pc = "open" => fs = pre

\* the whole chain down to the deep model directory was missing and the
\* artifact is about to be opened
C7_Witness ==
    /\ pc = "open"
    /\ ModelDirDepth = MaxDepth
    /\ \A i \in Depths : pre.dirs[i] = "absent"

\* C8: a terminated run has status 0 exactly when nothing was raised, and
\* then model.dummy is fully written; a run in which any step raised has a
\* nonzero status, and after a raise no further step of the job runs.
C8_ExitCode ==
    /\ Done => /\ exitCode = 0 <=> exc = "none"
               /\ exitCode = 0 => Artifact = File(Encode(DummyModel))
               /\ exitCode >= 0
    /\ failedAt # "none" => pc \in {"exit_with", "done"}
    /\ (Done /\ failedAt \in {"config", "listdir", "makedirs", "open", "write"})
          => exitCode > 0

\* directory creation was refused and the run ended with status 1
C8_Witness ==
    /\ Done
    /\ failedAt = "makedirs"
    /\ exc = "PermissionError"
    /\ exitCode = 1

\* The steps of a complete run, in order.
LinearSequence ==
    <<<<"listdir", 0>>,
      <<"running", 0>>, <<"completed", 0>>,
      <<"running", 1>>, <<"completed", 1>>,
      <<"running", 2>>, <<"completed", 2>>,
      <<"running", 3>>, <<"completed", 3>>,
      <<"running", 4>>, <<"completed", 4>>,
      <<"makedirs", 0>>, <<"open", 0>>, <<"write", 0>>, <<"close", 0>>>>

\* What a run has done is an initial part of the linear sequence, and all of
\* it when the run succeeded.
C9_InOrder ==
    /\ IsPrefix(trace, LinearSequence)
    /\ Succeeded => trace = LinearSequence

\* Within a run a step only adds to what has been done.
C9_NoReentry ==
    run' = run => IsPrefix(trace, trace') /\ Len(trace') <= Len(trace) + 1

\* The training directory exists and is about to be listed.
C9_Started == pc = "listdir" /\ TrainingDir(args.training_dir).kind = "dir"

\* C9: the job is the linear sequence list, five epochs 0..4 each started
\* then completed, directory creation, open, write, close: every run has
\* performed an initial part of it, no step is performed again, and a run
\* that has an existing training directory to list eventually terminates.
C9_StrictLinearSequence ==
    /\ []C9_InOrder
    /\ [][C9_NoReentry]_vars
    /\ (C9_Started ~> Done)

\* a first run into the shallow model directory performed the whole sequence
C9_Witness ==
    /\ Succeeded
    /\ run = 1
    /\ Len(trace) = Len(LinearSequence)
    /\ args.model_dir = "flag_model"

\* C10: the file object is open exactly between the successful open and the
\* exit of the with statement, so in every terminated state, after a
\* successful write and after a failed one, it is closed or was never opened.
C10_HandleReleased ==
    /\ f = "open" <=> pc \in {"write", "exit_with"}
    /\ Done => f \in {"none", "closed"}
    /\ (Done /\ failedAt = "write") => f = "closed"
    /\ f = "closed" => trace # <<>> /\ <<"open", 0>> \in {trace[i] : i \in 1..Len(trace)}

\* the write failed before any byte was written and the run has ended
C10_Witness ==
    /\ Done
    /\ failedAt = "write"
    /\ f = "closed"
    /\ Artifact.data = <<>>

====
